---- MODULE Spec2Model ----
(***************************************************************************)
(* Timer-driven stepper motion engine (TimerStepperControl) with its       *)
(* command queue, consumer task and tick interrupt.                        *)
(*                                                                         *)
(* Floats are modelled exactly as fixed-point rationals:                   *)
(*   time            : integer time units, UnitsPerSec units per second    *)
(*   currentSpeed    : numerator over UnitsPerSec      (steps / second)    *)
(*   stepAccumulator : numerator over UnitsPerSec^2    (steps)             *)
(* so  _currentSpeed += _acceleration * (elapsed / 1e6)  becomes           *)
(*     currentSpeed + acceleration * elapsed,   and                        *)
(*     _stepAccumulator += _currentSpeed * (elapsed / 1e6)  becomes        *)
(*     stepAccumulator + currentSpeed * elapsed.                           *)
(* The code reads the clock only as  micros() - _lastAccelUpdateTime, so   *)
(* the model keeps that difference (sinceAccel) instead of both values.    *)
(* Writes to fields that no code path reads back (_minStepInterval,        *)
(* _stepsPerMs, _lastStepTime, the driver's speed hint) are left out.      *)
(***************************************************************************)
EXTENDS Integers, Sequences, FiniteSets, TLC

\* ------------------------------------------------------------------ bounds
MaxStale == 1    \* sinceAccel saturates here while the engine is idle
MaxPos   == 2    \* largest |target| the callers ask for
MaxSpeed == 2    \* largest commanded speed (steps / second)

\* ------------------------------------------------------- program constants
QueueCapacity == 10     \* xQueueCreate(10, ...)
UnitsPerSec   == 2      \* 1000000 (microseconds per second), scaled down
TickPeriod    == 1      \* the timer alarm period, the model's time unit
DefaultAcceleration == 2  \* _acceleration(6400), scaled down

One == UnitsPerSec * UnitsPerSec            \* 1.0f in accumulator units

Min(a, b) == IF a < b THEN a ELSE b
Abs(a) == IF a < 0 THEN -a ELSE a

\* --------------------------------------------------------------- commands
MotorCommandType ==
  {"CMD_MOVE_TO", "CMD_MOVE_STEPS", "CMD_SET_SPEED", "CMD_START_JOG",
   "CMD_STOP_JOG", "CMD_MOVE_JOG", "CMD_START_CONTINUOUS", "CMD_STOP_MOTOR",
   "CMD_SET_ACCELERATION"}

MotionStart ==
  {"CMD_MOVE_TO", "CMD_MOVE_STEPS", "CMD_START_JOG", "CMD_MOVE_JOG",
   "CMD_START_CONTINUOUS"}

\* MotorCommand_t; acceleration 0 stands for a field the caller left unset.
MotorCommand(t, p, s, d) ==
  [cmd_type |-> t, position |-> p, speed |-> s, direction |-> d,
   acceleration |-> 0]

Speeds == 0 .. MaxSpeed
Accels == {1, 2}

StopCmd == MotorCommand("CMD_STOP_MOTOR", 0, 0, TRUE)

\* The CMD_SET_ACCELERATION command the caller builds from its setting.
SetAccelerationCmd(a) ==
  [MotorCommand("CMD_SET_ACCELERATION", 0, 0, TRUE) EXCEPT !.acceleration = a]

\* The commands the caller contexts construct in Spec: every kind, moves in
\* both directions, speed 0, a slow and the top speed.  Fields a handler
\* does not read are fixed so that equal commands are not enumerated twice.
Commands ==
  {MotorCommand("CMD_MOVE_TO", p, MaxSpeed, TRUE) : p \in {-MaxPos, 1}}
  \cup {MotorCommand("CMD_MOVE_STEPS", p, 1, TRUE) : p \in {-1, MaxPos}}
  \cup {MotorCommand("CMD_MOVE_JOG", p, MaxSpeed, TRUE) : p \in {-1, 1}}
  \cup {MotorCommand("CMD_SET_SPEED", 0, s, TRUE) : s \in Speeds}
  \cup {MotorCommand("CMD_START_JOG", 0, 1, TRUE)}
  \cup {MotorCommand("CMD_START_CONTINUOUS", 0, MaxSpeed, d) : d \in BOOLEAN}
  \cup {StopCmd,
        MotorCommand("CMD_STOP_JOG", 0, 0, TRUE),
        SetAccelerationCmd(1)}

\* ------------------------------------------------------------------ state
VARIABLES
  m,        \* TimerStepperControl's fields
  drv,      \* StepperDriver: enabled, latched direction, net pulses emitted
  queue,    \* _commandQueue, oldest first
  hc,       \* consumer task: the command handleCommand is executing, and
            \* the index of its next statement (i = 0: waiting in xQueueReceive)
  halted,   \* history: a STOP was applied and no motion-start command since
  last,     \* history: what the most recent step of the system was
  ui        \* the sketch: its flags, sequenceData and the loop task's position

vars == <<m, drv, queue, hc, halted, last, ui>>

NoCmd == MotorCommand("CMD_STOP_JOG", 0, 0, TRUE)
HcIdle == [cmd |-> NoCmd, i |-> 0, ran |-> FALSE]

\* State right after the constructor and init().
InitMotor ==
  [isRunning |-> FALSE, isContinuous |-> FALSE, jogMode |-> FALSE,
   direction |-> TRUE, speed |-> 0,
   currentPosition |-> 0, targetPosition |-> 0,
   acceleration |-> DefaultAcceleration,
   currentSpeed |-> 0, stepAccumulator |-> 0,
   sinceAccel |-> MaxStale]

InitDriver ==
  [enabled |-> FALSE, direction |-> TRUE, net |-> 0, asleep |-> FALSE]

\* sequenceData's initializer and the sketch's flags after setup().
DefaultPositions == <<0, 25, 50, 75, 100>>

UiInit ==
  [pc |-> "loop", after |-> "loop", motorRunning |-> FALSE,
   idleTimeout |-> FALSE, isRunning |-> FALSE, currentStep |-> 0,
   currentPosition |-> 0, positions |-> DefaultPositions,
   initialDirection |-> TRUE, angularMovement |-> 0,
   loopSequence |-> FALSE, clockwiseDirection |-> TRUE,
   continuousMode |-> FALSE]

\* last.act   "init", "tick", "cmd" (a command was applied), "stmt" (one
\*            statement of handleCommand ran), "send", "clear", "api",
\*            "sleep", "wake", "ui" (a step of the sketch without a call)
\* last.type  the kind of the command applied or sent
\* last.ran   tick, cmd, sleep, wake: _isRunning before the step
\* last.n     tick: driver.step() calls made; send: 1 if sendCommand returned
\*            true; clear: commands discarded; cmd: 1 if halted before
\* last.d     tick: change of currentPosition
Last(act, type, ran, n, d) ==
  [act |-> act, type |-> type, ran |-> ran, n |-> n, d |-> d]

Init ==
  /\ m = InitMotor
  /\ drv = InitDriver
  /\ queue = <<>>
  /\ hc = HcIdle
  /\ halted = FALSE
  /\ last = Last("init", "-", FALSE, 0, 0)
  /\ ui = UiInit

\* ----------------------------------------------------------------- driver
\* step() pulsing the step pin whether the driver is enabled or not.
DriverStepWhenDisabled(d) ==
  [d EXCEPT !.net = IF d.direction THEN @ + 1 ELSE @ - 1]

\* StepperDriver::step(): one pulse in the latched direction, nothing when
\* the driver is disabled.
DriverStep(d) ==
  IF d.enabled
  THEN [d EXCEPT !.net = IF d.direction THEN @ + 1 ELSE @ - 1]
  ELSE d

\* handleCommand() (lines 226-316): the statements of each case, in source
\* order, that write state some code path reads.
MoveToStmts ==
  <<"target_abs", "speed", "acc0", "run1", "cont0", "enable", "jog0">>
MoveStepsStmts ==
  <<"target_rel", "speed", "acc0", "run1", "cont0", "enable", "cs0",
    "resync", "jog0">>
SetSpeedStmts == <<"speed">>
StartJogStmts == <<"speed", "acc0", "run1", "cont0", "jog1", "enable">>
MoveJogStmts ==
  <<"target_rel", "speed", "acc0", "run1", "cont0", "jog1", "enable">>
StartContinuousStmts ==
  <<"dir", "speed", "acc0", "run1", "cont1", "setdir", "enable", "cs0",
    "resync", "jog0">>
StopMotorStmts == <<"run0", "cont0", "disable", "jog0">>

\* A CMD_MOVE_JOG case that takes the command's steps as the target.
StmtsJogAbsoluteTarget(t) ==
  CASE t = "CMD_MOVE_TO" -> MoveToStmts
    [] t = "CMD_MOVE_STEPS" -> MoveStepsStmts
    [] t = "CMD_SET_SPEED" -> SetSpeedStmts
    [] t = "CMD_START_JOG" -> StartJogStmts
    [] t = "CMD_MOVE_JOG" -> <<"target_abs">> \o Tail(MoveJogStmts)
    [] t = "CMD_START_CONTINUOUS" -> StartContinuousStmts
    [] t = "CMD_STOP_MOTOR" -> StopMotorStmts
    [] OTHER -> <<>>

\* A CMD_MOVE_JOG case that restarts the ramp from 0.
StmtsJogResetsSpeed(t) ==
  CASE t = "CMD_MOVE_TO" -> MoveToStmts
    [] t = "CMD_MOVE_STEPS" -> MoveStepsStmts
    [] t = "CMD_SET_SPEED" -> SetSpeedStmts
    [] t = "CMD_START_JOG" -> StartJogStmts
    [] t = "CMD_MOVE_JOG" -> Append(MoveJogStmts, "cs0")
    [] t = "CMD_START_CONTINUOUS" -> StartContinuousStmts
    [] t = "CMD_STOP_MOTOR" -> StopMotorStmts
    [] OTHER -> <<>>

\* A CMD_SET_SPEED case that also restarts the ramp from 0.
StmtsSetSpeedRestartsRamp(t) ==
  CASE t = "CMD_MOVE_TO" -> MoveToStmts
    [] t = "CMD_MOVE_STEPS" -> MoveStepsStmts
    [] t = "CMD_SET_SPEED" -> Append(SetSpeedStmts, "cs0")
    [] t = "CMD_START_JOG" -> StartJogStmts
    [] t = "CMD_MOVE_JOG" -> MoveJogStmts
    [] t = "CMD_START_CONTINUOUS" -> StartContinuousStmts
    [] t = "CMD_STOP_MOTOR" -> StopMotorStmts
    [] OTHER -> <<>>

\* A default case that stops the motor on a kind it does not know.
StmtsUnknownStops(t) ==
  CASE t = "CMD_MOVE_TO" -> MoveToStmts
    [] t = "CMD_MOVE_STEPS" -> MoveStepsStmts
    [] t = "CMD_SET_SPEED" -> SetSpeedStmts
    [] t = "CMD_START_JOG" -> StartJogStmts
    [] t = "CMD_MOVE_JOG" -> MoveJogStmts
    [] t = "CMD_START_CONTINUOUS" -> StartContinuousStmts
    [] t = "CMD_STOP_MOTOR" -> StopMotorStmts
    [] OTHER -> StopMotorStmts

\* A CMD_STOP_MOTOR case that forgets to clear _isRunning.
StmtsStopLeavesRunning(t) ==
  CASE t = "CMD_MOVE_TO" -> MoveToStmts
    [] t = "CMD_MOVE_STEPS" -> MoveStepsStmts
    [] t = "CMD_SET_SPEED" -> SetSpeedStmts
    [] t = "CMD_START_JOG" -> StartJogStmts
    [] t = "CMD_MOVE_JOG" -> MoveJogStmts
    [] t = "CMD_START_CONTINUOUS" -> StartContinuousStmts
    [] t = "CMD_STOP_MOTOR" -> <<"cont0", "disable", "jog0">>
    [] OTHER -> <<>>

Stmts(t) ==
  CASE t = "CMD_MOVE_TO" -> MoveToStmts
    [] t = "CMD_MOVE_STEPS" -> MoveStepsStmts
    [] t = "CMD_SET_SPEED" -> SetSpeedStmts
    [] t = "CMD_START_JOG" -> StartJogStmts
    [] t = "CMD_MOVE_JOG" -> MoveJogStmts
    [] t = "CMD_START_CONTINUOUS" -> StartContinuousStmts
    [] t = "CMD_STOP_MOTOR" -> StopMotorStmts
    [] OTHER -> <<>>

\* -------------------------------------------------------------- the tick
\* The speed update without the cap at the target speed.
RampSpeedNoCap(s, elapsed) ==
  LET target == s.speed * UnitsPerSec IN
  IF ~s.jogMode
  THEN IF s.currentSpeed < target /\ s.acceleration > 0
       THEN s.currentSpeed + s.acceleration * elapsed
       ELSE IF s.currentSpeed > target /\ s.acceleration > 0
            THEN IF s.currentSpeed - s.acceleration * elapsed < 0
                 THEN 0
                 ELSE s.currentSpeed - s.acceleration * elapsed
            ELSE s.currentSpeed
  ELSE target

\* The speed update with jog mode ramping like every other mode.
RampSpeedJogRamps(s, elapsed) ==
  LET target == s.speed * UnitsPerSec IN
  IF s.currentSpeed < target /\ s.acceleration > 0
  THEN Min(s.currentSpeed + s.acceleration * elapsed, target)
  ELSE IF s.currentSpeed > target /\ s.acceleration > 0
       THEN IF s.currentSpeed - s.acceleration * elapsed < 0
            THEN 0
            ELSE s.currentSpeed - s.acceleration * elapsed
       ELSE s.currentSpeed

\* processStep(), speed update (lines 137-152).
RampSpeed(s, elapsed) ==
  LET target == s.speed * UnitsPerSec IN
  IF ~s.jogMode
  THEN IF s.currentSpeed < target /\ s.acceleration > 0
       THEN Min(s.currentSpeed + s.acceleration * elapsed, target)
       ELSE IF s.currentSpeed > target /\ s.acceleration > 0
            THEN IF s.currentSpeed - s.acceleration * elapsed < 0
                 THEN 0
                 ELSE s.currentSpeed - s.acceleration * elapsed
            ELSE s.currentSpeed
  ELSE target

\* EmitStep with the arrival test one step early.
EmitStepEarlyStop(s, d) ==
  IF s.isContinuous
  THEN [m   |-> [s EXCEPT !.currentPosition =
                             IF s.direction THEN @ + 1 ELSE @ - 1],
        drv |-> DriverStep([d EXCEPT !.direction = s.direction]),
        calls |-> 1]
  ELSE IF Abs(s.targetPosition - s.currentPosition) <= 1
  THEN [m   |-> [s EXCEPT !.isRunning = FALSE],
        drv |-> [d EXCEPT !.enabled = FALSE],
        calls |-> 0]
  ELSE IF s.currentPosition < s.targetPosition
  THEN [m   |-> [s EXCEPT !.currentPosition = @ + 1],
        drv |-> DriverStep([d EXCEPT !.direction = TRUE]),
        calls |-> 1]
  ELSE [m   |-> [s EXCEPT !.currentPosition = @ - 1],
        drv |-> DriverStep([d EXCEPT !.direction = FALSE]),
        calls |-> 1]

\* EmitStep with the position comparison the wrong way round.
EmitStepAway(s, d) ==
  IF s.isContinuous
  THEN [m   |-> [s EXCEPT !.currentPosition =
                             IF s.direction THEN @ + 1 ELSE @ - 1],
        drv |-> DriverStep([d EXCEPT !.direction = s.direction]),
        calls |-> 1]
  ELSE IF s.currentPosition = s.targetPosition
  THEN [m   |-> [s EXCEPT !.isRunning = FALSE],
        drv |-> [d EXCEPT !.enabled = FALSE],
        calls |-> 0]
  ELSE IF s.currentPosition > s.targetPosition
  THEN [m   |-> [s EXCEPT !.currentPosition = @ + 1],
        drv |-> DriverStep([d EXCEPT !.direction = TRUE]),
        calls |-> 1]
  ELSE [m   |-> [s EXCEPT !.currentPosition = @ - 1],
        drv |-> DriverStep([d EXCEPT !.direction = FALSE]),
        calls |-> 1]

\* EmitStep with the arrival test made in continuous mode too.
EmitStepContinuousArrives(s, d) ==
  IF s.currentPosition = s.targetPosition
  THEN [m   |-> [s EXCEPT !.isRunning = FALSE],
        drv |-> [d EXCEPT !.enabled = FALSE],
        calls |-> 0]
  ELSE IF s.isContinuous
  THEN [m   |-> [s EXCEPT !.currentPosition =
                             IF s.direction THEN @ + 1 ELSE @ - 1],
        drv |-> DriverStep([d EXCEPT !.direction = s.direction]),
        calls |-> 1]
  ELSE IF s.currentPosition < s.targetPosition
  THEN [m   |-> [s EXCEPT !.currentPosition = @ + 1],
        drv |-> DriverStep([d EXCEPT !.direction = TRUE]),
        calls |-> 1]
  ELSE [m   |-> [s EXCEPT !.currentPosition = @ - 1],
        drv |-> DriverStep([d EXCEPT !.direction = FALSE]),
        calls |-> 1]

\* processStep(), the part after the accumulator crossed 1.0 (lines 164-200).
\* Result: engine, driver and the number of driver.step() calls made.
EmitStep(s, d) ==
  IF s.isContinuous
  THEN [m   |-> [s EXCEPT !.currentPosition =
                             IF s.direction THEN @ + 1 ELSE @ - 1],
        drv |-> DriverStep([d EXCEPT !.direction = s.direction]),
        calls |-> 1]
  ELSE IF s.currentPosition = s.targetPosition
  THEN [m   |-> [s EXCEPT !.isRunning = FALSE],
        drv |-> [d EXCEPT !.enabled = FALSE],
        calls |-> 0]
  ELSE IF s.currentPosition < s.targetPosition
  THEN [m   |-> [s EXCEPT !.currentPosition = @ + 1],
        drv |-> DriverStep([d EXCEPT !.direction = TRUE]),
        calls |-> 1]
  ELSE [m   |-> [s EXCEPT !.currentPosition = @ - 1],
        drv |-> DriverStep([d EXCEPT !.direction = FALSE]),
        calls |-> 1]

\* processStep with a catch-up loop: a second step in the same tick while
\* the accumulator still holds a whole step.
ProcessStepCatchUp(s, d, elapsed) ==
  IF ~s.isRunning THEN [m |-> s, drv |-> d, calls |-> 0]
  ELSE
    LET cs  == RampSpeed(s, elapsed)
        acc == s.stepAccumulator + cs * elapsed
        s1  == [s EXCEPT !.sinceAccel = 0, !.currentSpeed = cs,
                         !.stepAccumulator = acc]
        r1  == EmitStep([s1 EXCEPT !.stepAccumulator = acc - One], d)
        r2  == EmitStep([r1.m EXCEPT !.stepAccumulator = @ - One], r1.drv)
    IN  IF acc >= One
        THEN IF r1.m.isRunning /\ r1.m.stepAccumulator >= One
             THEN [r2 EXCEPT !.calls = r1.calls + r2.calls]
             ELSE r1
        ELSE [m |-> s1, drv |-> d, calls |-> 0]

\* processStep() (lines 126-201); elapsed = micros() - _lastAccelUpdateTime.
ProcessStep(s, d, elapsed) ==
  IF ~s.isRunning THEN [m |-> s, drv |-> d, calls |-> 0]
  ELSE
    LET cs  == RampSpeed(s, elapsed)
        acc == s.stepAccumulator + cs * elapsed
        s1  == [s EXCEPT !.sinceAccel = 0, !.currentSpeed = cs,
                         !.stepAccumulator = acc]
    IN  IF acc >= One
        THEN EmitStep([s1 EXCEPT !.stepAccumulator = acc - One], d)
        ELSE [m |-> s1, drv |-> d, calls |-> 0]

\* timerCallback refreshing the time base on an idle tick.
TimerCallbackIdleResync(s, d) ==
  IF s.isRunning
  THEN ProcessStep(s, d, s.sinceAccel + TickPeriod)
  ELSE [m |-> [s EXCEPT !.sinceAccel = 0], drv |-> d, calls |-> 0]

\* timerCallback() (lines 110-123), fired TickPeriod after the previous
\* interrupt.  An idle engine only lets the clock run on.
TimerCallback(s, d) ==
  IF s.isRunning
  THEN ProcessStep(s, d, s.sinceAccel + TickPeriod)
  ELSE [m |-> [s EXCEPT !.sinceAccel = Min(@ + TickPeriod, MaxStale)],
        drv |-> d, calls |-> 0]

\* handleCommand() has made the engine running but has not yet executed a
\* reset of stepAccumulator / currentSpeed that its case contains, and the
\* value still to be reset is not the one the reset writes.
Executed(op) ==
  \E k \in 1 .. (hc.i - 1) : Stmts(hc.cmd.cmd_type)[k] = op
StillToRun(op) ==
  \E k \in hc.i .. Len(Stmts(hc.cmd.cmd_type)) : Stmts(hc.cmd.cmd_type)[k] = op
HalfApplied ==
  /\ hc.i > 0
  /\ m.isRunning
  /\ Executed("run1")
  /\ \/ StillToRun("acc0") /\ m.stepAccumulator # 0
     \/ StillToRun("cs0") /\ m.currentSpeed # 0

\* The timer interrupt, while currentPosition and the driver's net pulse
\* count stay within `limit`.
TimerInterrupt(limit) ==
  LET r == TimerCallback(m, drv) IN
  /\ Abs(r.m.currentPosition) <= limit
  /\ Abs(r.drv.net) <= limit
  /\ m' = r.m
  /\ drv' = r.drv
  /\ last' = Last("tick", IF HalfApplied THEN "half-applied" ELSE "-",
                  m.isRunning, r.calls,
                  r.m.currentPosition - m.currentPosition)
  /\ UNCHANGED <<queue, hc, halted>>

Tick == TimerInterrupt(MaxPos)

\* ------------------------------------------------------- command handling
\* One statement of handleCommand().
Exec(op, cmd, s, d) ==
  CASE op = "target_abs" ->
         [m |-> [s EXCEPT !.targetPosition = cmd.position], drv |-> d]
    [] op = "target_rel" ->
         [m |-> [s EXCEPT !.targetPosition = s.currentPosition + cmd.position],
          drv |-> d]
    [] op = "speed"  -> [m |-> [s EXCEPT !.speed = cmd.speed], drv |-> d]
    [] op = "dir"    -> [m |-> [s EXCEPT !.direction = cmd.direction], drv |-> d]
    [] op = "acc0"   -> [m |-> [s EXCEPT !.stepAccumulator = 0], drv |-> d]
    [] op = "cs0"    -> [m |-> [s EXCEPT !.currentSpeed = 0], drv |-> d]
    [] op = "resync" -> [m |-> [s EXCEPT !.sinceAccel = 0], drv |-> d]
    [] op = "run1"   -> [m |-> [s EXCEPT !.isRunning = TRUE], drv |-> d]
    [] op = "run0"   -> [m |-> [s EXCEPT !.isRunning = FALSE], drv |-> d]
    [] op = "cont1"  -> [m |-> [s EXCEPT !.isContinuous = TRUE], drv |-> d]
    [] op = "cont0"  -> [m |-> [s EXCEPT !.isContinuous = FALSE], drv |-> d]
    [] op = "jog1"   -> [m |-> [s EXCEPT !.jogMode = TRUE], drv |-> d]
    [] op = "jog0"   -> [m |-> [s EXCEPT !.jogMode = FALSE], drv |-> d]
    [] op = "setdir" -> [m |-> s, drv |-> [d EXCEPT !.direction = s.direction]]
    [] op = "enable" ->
         [m |-> s, drv |-> [d EXCEPT !.enabled = TRUE, !.asleep = FALSE]]
    [] op = "disable" -> [m |-> s, drv |-> [d EXCEPT !.enabled = FALSE]]

RECURSIVE ExecFrom(_, _, _, _)
ExecFrom(i, cmd, s, d) ==
  IF i > Len(Stmts(cmd.cmd_type)) THEN [m |-> s, drv |-> d]
  ELSE LET r == Exec(Stmts(cmd.cmd_type)[i], cmd, s, d)
       IN  ExecFrom(i + 1, cmd, r.m, r.drv)

\* handleCommand with CMD_STOP_MOTOR as a pause / resume toggle.
HandleCommandToggle(cmd, s, d) ==
  LET r == ExecFrom(1, cmd, s, d) IN
  IF cmd.cmd_type = "CMD_STOP_MOTOR"
  THEN [r EXCEPT !.m.isRunning = ~s.isRunning]
  ELSE r

\* handleCommand() run to completion.
HandleCommand(cmd, s, d) == ExecFrom(1, cmd, s, d)

HaltedAfter(t) ==
  IF t = "CMD_STOP_MOTOR" THEN TRUE
  ELSE IF t \in MotionStart THEN FALSE
  ELSE halted

\* motorControlTask handling the oldest command and leaving it in the queue.
MotorControlTaskPeek ==
  /\ hc.i = 0
  /\ queue # <<>>
  /\ LET cmd == Head(queue)
         r   == HandleCommand(cmd, m, drv)
     IN  /\ m' = r.m
         /\ drv' = r.drv
         /\ halted' = HaltedAfter(cmd.cmd_type)
         /\ last' = Last("cmd", cmd.cmd_type, m.isRunning,
                         IF halted THEN 1 ELSE 0, 0)
  /\ UNCHANGED <<queue, hc>>

\* motorControlTask taking the newest command instead of the oldest.
MotorControlTaskLifo ==
  /\ hc.i = 0
  /\ queue # <<>>
  /\ LET cmd == queue[Len(queue)]
         r   == HandleCommand(cmd, m, drv)
     IN  /\ m' = r.m
         /\ drv' = r.drv
         /\ halted' = HaltedAfter(cmd.cmd_type)
         /\ last' = Last("cmd", cmd.cmd_type, m.isRunning,
                         IF halted THEN 1 ELSE 0, 0)
  /\ queue' = SubSeq(queue, 1, Len(queue) - 1)
  /\ UNCHANGED hc

\* motorControlTask() (lines 210-223): one iteration that finds a command,
\* with no tick interrupt inside handleCommand().
MotorControlTask ==
  /\ hc.i = 0
  /\ queue # <<>>
  /\ LET cmd == Head(queue)
         r   == HandleCommand(cmd, m, drv)
     IN  /\ m' = r.m
         /\ drv' = r.drv
         /\ halted' = HaltedAfter(cmd.cmd_type)
         /\ last' = Last("cmd", cmd.cmd_type, m.isRunning,
                         IF halted THEN 1 ELSE 0, 0)
  /\ queue' = Tail(queue)
  /\ UNCHANGED hc

\* ------------------------------------------------------- caller contexts
\* sendCommand on a queue that never reports full.
SendCommandUnbounded(cmd) ==
  /\ queue' = Append(queue, cmd)
  /\ last' = Last("send", cmd.cmd_type, FALSE, 1, 0)
  /\ UNCHANGED <<m, drv, hc, halted>>

\* sendCommand() (lines 204-207): xQueueSend with a 100 ms timeout.  With
\* no room by the end of the wait the command is dropped and false
\* returned; last.n is the return value (1 = true).
SendCommand(cmd) ==
  /\ IF Len(queue) < QueueCapacity
     THEN /\ queue' = Append(queue, cmd)
          /\ last' = Last("send", cmd.cmd_type, FALSE, 1, 0)
     ELSE /\ UNCHANGED queue
          /\ last' = Last("send", cmd.cmd_type, FALSE, 0, 0)
  /\ UNCHANGED <<m, drv, hc, halted>>

\* clearCommandQueue() (lines 76-94); last.n = commands discarded.
ClearCommandQueue ==
  /\ m' = [m EXCEPT !.isRunning = FALSE, !.isContinuous = FALSE,
                    !.jogMode = FALSE, !.currentSpeed = 0,
                    !.stepAccumulator = 0]
  /\ queue' = <<>>
  /\ last' = Last("clear", "-", FALSE, Len(queue), 0)
  /\ UNCHANGED <<drv, hc, halted>>

\* resetMotorState() (lines 96-107).
ResetMotorState ==
  /\ m' = [m EXCEPT !.isRunning = FALSE, !.isContinuous = FALSE,
                    !.jogMode = FALSE, !.currentSpeed = 0,
                    !.stepAccumulator = 0, !.sinceAccel = 0]
  /\ last' = Last("api", "-", FALSE, 0, 0)
  /\ UNCHANGED <<drv, queue, hc, halted>>

\* setAcceleration() (timersteppercontrol.h lines 69-73).
SetAcceleration(a) ==
  /\ m' = [m EXCEPT !.acceleration = a]
  /\ last' = Last("api", "-", FALSE, 0, 0)
  /\ UNCHANGED <<drv, queue, hc, halted>>

\* motorControlTask() with the tick interrupt able to fire between any two
\* statements of handleCommand(): xQueueReceive, then one statement a step.
Receive ==
  /\ hc.i = 0
  /\ queue # <<>>
  /\ LET cmd == Head(queue) IN
       IF Stmts(cmd.cmd_type) = <<>>
       THEN /\ hc' = hc
            /\ last' = Last("cmd", cmd.cmd_type, m.isRunning,
                            IF halted THEN 1 ELSE 0, 0)
       ELSE /\ hc' = [cmd |-> cmd, i |-> 1, ran |-> m.isRunning]
            /\ last' = Last("stmt", cmd.cmd_type, m.isRunning, 0, 0)
  /\ queue' = Tail(queue)
  /\ UNCHANGED <<m, drv, halted>>

Statement ==
  /\ hc.i > 0
  /\ LET t == hc.cmd.cmd_type
         r == Exec(Stmts(t)[hc.i], hc.cmd, m, drv)
     IN  /\ m' = r.m
         /\ drv' = r.drv
         /\ IF hc.i = Len(Stmts(t))
            THEN /\ hc' = HcIdle
                 /\ halted' = HaltedAfter(t)
                 /\ last' = Last("cmd", t, hc.ran, IF halted THEN 1 ELSE 0, 0)
            ELSE /\ hc' = [hc EXCEPT !.i = @ + 1]
                 /\ halted' = (IF t \in MotionStart THEN FALSE ELSE halted)
                 /\ last' = Last("stmt", t, hc.ran, 0, 0)
  /\ UNCHANGED queue

\* --------------------------------------------------------- specification
\* Spec: the engine with the consumer task applying each command in one
\* piece.  The caller sends its next command once the queue is empty again.
Next ==
  \/ Tick /\ UNCHANGED ui
  \/ MotorControlTask /\ UNCHANGED ui
  \/ \E cmd \in Commands : queue = <<>> /\ SendCommand(cmd) /\ UNCHANGED ui
  \/ ClearCommandQueue /\ UNCHANGED ui
  \/ ResetMotorState /\ UNCHANGED ui
  \/ SetAcceleration(DefaultAcceleration) /\ UNCHANGED ui

Spec == Init /\ [][Next]_vars

\* SpecQueue: the queue up to its capacity.  The callers send a STOP or a
\* START_JOG at any time, whatever the queue holds.
QueueCommands == {StopCmd, MotorCommand("CMD_START_JOG", 0, 1, TRUE)}

NextQueue ==
  \/ Tick /\ UNCHANGED ui
  \/ MotorControlTask /\ UNCHANGED ui
  \/ \E cmd \in QueueCommands : SendCommand(cmd) /\ UNCHANGED ui
  \/ ClearCommandQueue /\ UNCHANGED ui

SpecQueue == Init /\ [][NextQueue]_vars

\* SpecDrain: the callers have stopped sending, with up to MaxQueued
\* accepted commands waiting; the consumer task is scheduled again and
\* again (priority 10, blocking 10 ms at most in xQueueReceive).
MaxQueued == 3

DrainCommands ==
  {StopCmd,
   MotorCommand("CMD_MOVE_STEPS", 1, MaxSpeed, TRUE),
   MotorCommand("CMD_START_CONTINUOUS", 0, MaxSpeed, FALSE)}

InitDrain ==
  /\ m = InitMotor
  /\ drv = InitDriver
  /\ queue \in UNION {[1 .. n -> DrainCommands] : n \in 0 .. MaxQueued}
  /\ hc = HcIdle
  /\ halted = FALSE
  /\ last = Last("init", "-", FALSE, 0, 0)
  /\ ui = UiInit

DrainConsumer == MotorControlTask /\ UNCHANGED ui

NextDrain ==
  \/ Tick /\ UNCHANGED ui
  \/ DrainConsumer
  \/ queue # <<>> /\ ClearCommandQueue /\ UNCHANGED ui

SpecDrain == InitDrain /\ [][NextDrain]_vars /\ WF_vars(DrainConsumer)

\* SpecISR: handleCommand() one statement at a time, the tick in between.
ISRCommands ==
  {MotorCommand("CMD_MOVE_STEPS", 1, MaxSpeed, TRUE),
   MotorCommand("CMD_START_CONTINUOUS", 0, MaxSpeed, TRUE),
   MotorCommand("CMD_MOVE_JOG", -1, MaxSpeed, TRUE),
   StopCmd}

NextISR ==
  \/ Tick /\ UNCHANGED ui
  \/ Receive /\ UNCHANGED ui
  \/ Statement /\ UNCHANGED ui
  \/ \E cmd \in ISRCommands : queue = <<>> /\ SendCommand(cmd) /\ UNCHANGED ui

SpecISR == Init /\ [][NextISR]_vars

\* SpecMove: one position move from an idle engine at position 0, and no
\* further command.  The idle states are those earlier motion leaves
\* behind: a STOP keeps currentSpeed, a finished jog step keeps jogMode.
MoveCommands ==
  {MotorCommand(t, n, s, TRUE) :
     t \in {"CMD_MOVE_TO", "CMD_MOVE_STEPS"}, n \in 1 .. MaxPos,
     s \in 1 .. MaxSpeed}

InitMove ==
  /\ \E a \in Accels, cs \in {0, MaxSpeed * UnitsPerSec}, j \in BOOLEAN,
        t \in 0 .. MaxStale :
       m = [InitMotor EXCEPT !.acceleration = a, !.currentSpeed = cs,
                             !.jogMode = j, !.sinceAccel = t]
  /\ drv = InitDriver
  /\ \E cmd \in MoveCommands : queue = <<cmd>>
  /\ hc = HcIdle
  /\ halted = FALSE
  /\ last = Last("init", "-", FALSE, 0, 0)
  /\ ui = UiInit

NextMove ==
  \/ TimerInterrupt(MaxPos + 1) /\ UNCHANGED ui
  \/ MotorControlTask /\ UNCHANGED ui

SpecMove ==
  /\ InitMove
  /\ [][NextMove]_vars
  /\ WF_vars(TimerInterrupt(MaxPos + 1) /\ UNCHANGED ui)
  /\ WF_vars(MotorControlTask /\ UNCHANGED ui)

\* SpecRamp: the speed ramp.  The caller starts and stops continuous and
\* jog motion, changes the target speed while the engine runs, and sets
\* the acceleration, also to values that do not divide the speeds.
RampAccels == {1, 2, 3}

RampCommands ==
  {MotorCommand("CMD_START_CONTINUOUS", 0, MaxSpeed, d) : d \in BOOLEAN}
    \cup {MotorCommand("CMD_SET_SPEED", 0, v, TRUE) : v \in {0, 1, MaxSpeed}}
    \cup {MotorCommand("CMD_START_JOG", 0, 1, TRUE), StopCmd}

NextRamp ==
  \/ Tick /\ UNCHANGED ui
  \/ MotorControlTask /\ UNCHANGED ui
  \/ \E cmd \in RampCommands : queue = <<>> /\ SendCommand(cmd) /\ UNCHANGED ui
  \/ \E a \in RampAccels : SetAcceleration(a) /\ UNCHANGED ui

SpecRamp == Init /\ [][NextRamp]_vars

\* ------------------------------------------------------------- the sketch
\* esp-32_motor_control.ino: the loop task.  ui.pc is the call the loop
\* task makes next; "loop" is the top of loop().  Positions are percent of
\* a revolution.
Rev == 100
StepsPerRev == 4    \* steps per output revolution, scaled down
StartSteps == 1     \* targetSteps of the steps screen, scaled down

\* TimerStepperControl::sleep() (part_002 lines 335-343).
Sleep ==
  /\ drv' = [drv EXCEPT !.enabled = FALSE, !.asleep = TRUE]
  /\ last' = Last("sleep", "-", m.isRunning, 0, 0)
  /\ UNCHANGED <<m, queue, hc, halted>>

\* TimerStepperControl::wake() (part_002 lines 345-351).
Wake ==
  /\ drv' = [drv EXCEPT !.asleep = FALSE]
  /\ last' = Last("wake", "-", m.isRunning, 0, 0)
  /\ UNCHANGED <<m, queue, hc, halted>>

\* A step of the sketch that calls nothing of the controller.
NoCall ==
  /\ last' = Last("ui", "-", FALSE, 0, 0)
  /\ UNCHANGED <<m, drv, queue, hc, halted>>

\* fmod() of <math.h>: the result has the sign of the dividend.
Fmod(a, b) == IF a >= 0 THEN a % b ELSE -((-a) % b)

\* "Extract normalized positions (0-99%)".
Normalized(position) ==
  IF Fmod(position, Rev) < 0 THEN Fmod(position, Rev) + Rev
  ELSE Fmod(position, Rev)

\* The angular movement without the wrap over a full revolution.
AngularMovementNoWrap(current, target, moveClockwise) ==
  IF moveClockwise
  THEN Normalized(target) - Normalized(current)
  ELSE Normalized(current) - Normalized(target)

\* moveToNextSequencePosition(), "Calculate the angular movement needed".
AngularMovement(current, target, moveClockwise) ==
  LET currentNormalized == Normalized(current)
      targetNormalized  == Normalized(target)
  IN  IF moveClockwise
      THEN IF targetNormalized >= currentNormalized
           THEN targetNormalized - currentNormalized
           ELSE (Rev - currentNormalized) + targetNormalized
      ELSE IF targetNormalized <= currentNormalized
           THEN currentNormalized - targetNormalized
           ELSE currentNormalized + (Rev - targetNormalized)

\* rotationPercentToSteps().
RotationPercentToSteps(percent) == (percent * StepsPerRev) \div Rev

\* The direction of every leg the configured initial direction.
MoveClockwiseNoAlternation(u, step) == u.initialDirection

\* "Determine direction (alternating based on step)".
MoveClockwise(u, step) ==
  IF step % 2 = 1 THEN u.initialDirection ELSE ~u.initialDirection

\* safelyStopAndResetMotor() up to its delay(25): the STOP is sent; `after`
\* is what the caller does once the function has returned.
SendStop(u, after) ==
  /\ SendCommand(StopCmd)
  /\ ui' = [u EXCEPT !.pc = "reset", !.after = after]

\* safelyStopAndResetMotor() after its delay(25), during which the consumer
\* task has emptied the queue.
SafelyStopAndResetMotor ==
  /\ ui.pc = "reset"
  /\ queue = <<>>
  /\ ResetMotorState
  /\ ui' = [ui EXCEPT !.pc = ui.after, !.motorRunning = FALSE,
                      !.continuousMode = FALSE]

\* on_move_steps_start_clicked(): a click, long after the loop task's last call.
OnMoveStepsStartClicked ==
  /\ ui.pc = "loop"
  /\ queue = <<>>
  /\ SendStop(ui, IF ui.motorRunning THEN "loop" ELSE "start")

\* startStepperMotion() up to controller.wake().
StartStepperMotion ==
  /\ ui.pc = "start"
  /\ IF ui.motorRunning
     THEN SendStop(ui, "start")
     ELSE Wake /\ ui' = [ui EXCEPT !.pc = "send"]

\* startStepperMotion() from sendCommand() on.
StartStepperMotionSend(clockwise) ==
  /\ ui.pc = "send"
  /\ SendCommand(MotorCommand("CMD_MOVE_STEPS",
                              IF clockwise THEN -StartSteps ELSE StartSteps,
                              MaxSpeed, ~clockwise))
  /\ ui' = [ui EXCEPT !.pc = "loop", !.motorRunning = TRUE,
                      !.continuousMode = FALSE, !.idleTimeout = FALSE]

\* stopMotor() after safelyStopAndResetMotor(): enableMotorPowerSave is set.
StopMotorSleep ==
  /\ ui.pc = "sleep"
  /\ Sleep
  /\ ui' = [ui EXCEPT !.pc = "loop"]

\* stopSequence() leaving sequenceData.isRunning as it is.
StopSequenceKeepsFlag(u) ==
  SendStop([u EXCEPT !.motorRunning = FALSE], "sleep")

\* stopSequence().
StopSequence(u) ==
  SendStop([u EXCEPT !.isRunning = FALSE, !.motorRunning = FALSE], "sleep")

\* "Calculate total movement", the whole turns counted from the current
\* position's instead of in full.
TotalMovementRelativeTurns(current, target, moveClockwise) ==
  AngularMovement(current, target, moveClockwise)
    + ((target \div Rev) - (current \div Rev)) * Rev

\* moveToNextSequencePosition(), "Extract rotation counts" and "Calculate
\* total movement".
TotalMovement(current, target, moveClockwise) ==
  AngularMovement(current, target, moveClockwise) + (target \div Rev) * Rev

\* "Check if we've reached the end", looping back whatever loopSequence is.
EndOfSequenceAlwaysLoops(u, step) == FALSE

\* moveToNextSequencePosition(), "Check if we've reached the end": the
\* sequence stops here.
EndOfSequence(u, step) == step >= 5 /\ ~u.loopSequence

\* moveToNextSequencePosition().
MoveToNextSequencePosition(u) ==
  LET next == u.currentStep + 1
      step == IF next >= 5 THEN 1 ELSE next
      target == u.positions[step + 1]
      moveClockwise == MoveClockwise(u, step)
      angular == AngularMovement(u.currentPosition, target, moveClockwise)
      totalMovement == TotalMovement(u.currentPosition, target, moveClockwise)
      stepsToMove == RotationPercentToSteps(totalMovement)
      u1 == [u EXCEPT !.pc = "loop", !.currentStep = step]
  IN  IF EndOfSequence(u, next)
      THEN StopSequence([u EXCEPT !.pc = "loop", !.currentStep = next])
      ELSE IF totalMovement <= 0
      THEN NoCall /\ ui' = [u1 EXCEPT !.angularMovement = angular]
      ELSE /\ SendCommand(MotorCommand("CMD_MOVE_STEPS",
                            IF moveClockwise THEN -stepsToMove ELSE stepsToMove,
                            MaxSpeed, TRUE))
           /\ ui' = [u1 EXCEPT !.angularMovement = angular,
                               !.currentPosition = target]

\* on_sequence_start_clicked().
OnSequenceStartClicked ==
  /\ ui.pc = "loop"
  /\ queue = <<>>
  /\ IF ui.isRunning THEN StopSequence(ui) ELSE SendStop(ui, "sequence")

\* startSequence(), after the delay(25) of on_sequence_start_clicked().
StartSequence ==
  /\ ui.pc = "sequence"
  /\ IF ui.motorRunning
     THEN SendStop(ui, "sleep")
     ELSE MoveToNextSequencePosition(
            [ui EXCEPT !.isRunning = TRUE, !.currentStep = 0,
                       !.currentPosition = ui.positions[1],
                       !.motorRunning = TRUE])

\* loop(), "Check if sequence is running and motor has stopped": the test,
\* before the delay(50).
LoopSequenceCheck ==
  /\ ui.pc = "loop"
  /\ ui.isRunning /\ ~m.isRunning
  /\ ui.currentStep > 0 /\ ui.currentStep < 5
  /\ NoCall
  /\ ui' = [ui EXCEPT !.pc = "next"]

\* loop(): moveToNextSequencePosition() after the delay(50), during which
\* the consumer task has emptied the queue.
LoopSequenceNext ==
  /\ ui.pc = "next"
  /\ queue = <<>>
  /\ MoveToNextSequencePosition(ui)

\* MOTOR_IDLE_TIMEOUT_MS have passed since lastMotorActivityTime.
IdleTimeout ==
  /\ ui.pc = "loop"
  /\ queue = <<>>
  /\ ~ui.idleTimeout
  /\ NoCall
  /\ ui' = [ui EXCEPT !.idleTimeout = TRUE]

\* loop(), "Check for motor idle timeout": the test.
LoopIdleCheck ==
  /\ ui.pc = "loop"
  /\ ui.motorRunning /\ ~m.isRunning /\ ui.idleTimeout
  /\ NoCall
  /\ ui' = [ui EXCEPT !.pc = "idle", !.motorRunning = FALSE]

\* loop(), "Check for motor idle timeout": controller.sleep().
LoopIdleSleep ==
  /\ ui.pc = "idle"
  /\ Sleep
  /\ ui' = [ui EXCEPT !.pc = "loop"]

\* loop(), "Poll for motor status updates".
LoopPoll ==
  /\ ui.pc = "loop"
  /\ ui.motorRunning /\ ~m.isRunning
  /\ NoCall
  /\ ui' = [ui EXCEPT !.motorRunning = FALSE]

\* SpecUI: the sketch's loop task against the consumer task and the timer.
MaxTravel == 8

NextUI ==
  \/ TimerInterrupt(MaxTravel) /\ UNCHANGED ui
  \/ MotorControlTask /\ UNCHANGED ui
  \/ OnMoveStepsStartClicked
  \/ StartStepperMotion
  \/ \E clockwise \in BOOLEAN : StartStepperMotionSend(clockwise)
  \/ SafelyStopAndResetMotor
  \/ StopMotorSleep
  \/ OnSequenceStartClicked
  \/ StartSequence
  \/ LoopSequenceCheck
  \/ LoopSequenceNext
  \/ IdleTimeout
  \/ LoopIdleCheck
  \/ LoopIdleSleep
  \/ LoopPoll

SpecUI == Init /\ [][NextUI]_vars

\* SpecLeg: one leg of a sequence, from every current and target position
\* up to MaxPercent, in both directions: an even leg, an odd leg, and leg 1
\* of the next round of a looping sequence.
MaxPercent == 210

InitLeg ==
  /\ m = InitMotor
  /\ drv = InitDriver
  /\ queue = <<>>
  /\ hc = HcIdle
  /\ halted = FALSE
  /\ last = Last("init", "-", FALSE, 0, 0)
  /\ \E current \in 0 .. MaxPercent, target \in 0 .. MaxPercent,
        d \in BOOLEAN, step \in {1, 2, 4} :
       ui = [UiInit EXCEPT !.pc = "next", !.isRunning = TRUE,
                           !.motorRunning = TRUE, !.currentStep = step,
                           !.currentPosition = current,
                           !.positions = [DefaultPositions EXCEPT
                                            ![IF step = 4 THEN 2
                                              ELSE step + 2] = target],
                           !.initialDirection = d,
                           !.loopSequence = (step = 4)]

NextLeg == LoopSequenceNext

SpecLeg == InitLeg /\ [][NextLeg]_vars

\* ------------------------------------------------ continuous rotation
\* on_continuous_rotation_start_clicked(): a click.
OnContinuousRotationStartClicked ==
  /\ ui.pc = "loop"
  /\ queue = <<>>
  /\ SendStop(ui, IF ui.motorRunning THEN "loop" ELSE "continuous")

\* startContinuousRotation() up to controller.wake().
StartContinuousRotation ==
  /\ ui.pc = "continuous"
  /\ IF ui.motorRunning
     THEN SendStop(ui, "continuous")
     ELSE Wake /\ ui' = [ui EXCEPT !.pc = "rotate"]

\* startContinuousRotation() from "Apply direction inversion" on, with
\* INVERT_CONTINUOUS_MODE_DIRECTION set.
StartContinuousRotationSend ==
  /\ ui.pc = "rotate"
  /\ SendCommand(MotorCommand("CMD_START_CONTINUOUS", 0, MaxSpeed,
                              ~ui.clockwiseDirection))
  /\ ui' = [ui EXCEPT !.pc = "loop", !.motorRunning = TRUE,
                      !.continuousMode = TRUE, !.idleTimeout = FALSE]

\* on_continuous_rotation_direction_clicked() up to its first
\* sendCommand(): a click.
OnContinuousRotationDirectionClicked ==
  /\ ui.pc = "loop"
  /\ queue = <<>>
  /\ IF ui.motorRunning /\ ui.continuousMode
     THEN /\ SendCommand(StopCmd)
          /\ ui' = [ui EXCEPT !.clockwiseDirection = ~@, !.pc = "toggle"]
     ELSE /\ NoCall
          /\ ui' = [ui EXCEPT !.clockwiseDirection = ~@]

\* on_continuous_rotation_direction_clicked(), "Start with new direction".
OnContinuousRotationDirectionSend ==
  /\ ui.pc = "toggle"
  /\ SendCommand(MotorCommand("CMD_START_CONTINUOUS", 0, MaxSpeed,
                              ui.clockwiseDirection))
  /\ ui' = [ui EXCEPT !.pc = "loop"]

\* SpecDirection: the start buttons of the step and the continuous mode and
\* the direction button, against the consumer task and the timer.
NextDirection ==
  \/ Tick /\ UNCHANGED ui
  \/ MotorControlTask /\ UNCHANGED ui
  \/ OnMoveStepsStartClicked
  \/ StartStepperMotion
  \/ StartStepperMotionSend(ui.clockwiseDirection)
  \/ OnContinuousRotationStartClicked
  \/ StartContinuousRotation
  \/ StartContinuousRotationSend
  \/ OnContinuousRotationDirectionClicked
  \/ OnContinuousRotationDirectionSend
  \/ SafelyStopAndResetMotor
  \/ LoopPoll

SpecDirection == Init /\ [][NextDirection]_vars

\* ------------------------------------------------------------ the drivers
\* L298NDriver::step() (part_004 lines 45-83): _stepCount is the phase of
\* the four-step sequence written to the pins.
L298NStep(d) ==
  IF ~d.enabled THEN d
  ELSE IF ~d.direction
       THEN [d EXCEPT !.stepCount = IF @ - 1 < 0 THEN 3 ELSE @ - 1,
                      !.net = @ - 1]
       ELSE [d EXCEPT !.stepCount = IF @ + 1 > 3 THEN 0 ELSE @ + 1,
                      !.net = @ + 1]

\* SpecDriver: a driver of either variant on its own, from every state of
\* its fields, under the calls of the StepperDriver interface.
InitStepperDriver ==
  /\ m = InitMotor
  /\ queue = <<>>
  /\ hc = HcIdle
  /\ halted = FALSE
  /\ last = Last("init", "-", FALSE, 0, 0)
  /\ ui = UiInit
  /\ drv \in [enabled : BOOLEAN, direction : BOOLEAN, asleep : BOOLEAN,
              net : -MaxPos .. MaxPos, stepCount : 0 .. 3]

DriverCall(act, type, d) ==
  /\ Abs(d.net) <= MaxPos
  /\ drv' = d
  /\ last' = Last(act, type, drv.enabled, 0, d.net - drv.net)
  /\ UNCHANGED <<m, queue, hc, halted, ui>>

DRV8825DriverStep == DriverCall("step", "DRV8825", DriverStep(drv))
L298NDriverStep == DriverCall("step", "L298N", L298NStep(drv))
DriverEnable ==
  DriverCall("enable", "-", [drv EXCEPT !.enabled = TRUE, !.asleep = FALSE])
DriverDisable == DriverCall("disable", "-", [drv EXCEPT !.enabled = FALSE])
DriverSetDirection ==
  \E clockwise \in BOOLEAN :
    DriverCall("setDirection", "-", [drv EXCEPT !.direction = clockwise])

NextDriver ==
  \/ DRV8825DriverStep
  \/ L298NDriverStep
  \/ DriverEnable
  \/ DriverDisable
  \/ DriverSetDirection

SpecDriver == InitStepperDriver /\ [][NextDriver]_vars

\* SpecSeq: one run of a sequence over the default positions, from the
\* click on its start button, with and without looping, and no further
\* click.  The timer, the consumer task and the loop task keep running.
InitSeq ==
  /\ m = InitMotor
  /\ drv = InitDriver
  /\ queue = <<>>
  /\ hc = HcIdle
  /\ halted = FALSE
  /\ last = Last("init", "-", FALSE, 0, 0)
  /\ \E d \in BOOLEAN, l \in BOOLEAN, t \in BOOLEAN :
       ui = [UiInit EXCEPT !.pc = "sequence", !.initialDirection = d,
                           !.loopSequence = l, !.idleTimeout = t]

SeqTick == TimerInterrupt(MaxTravel + MaxPos) /\ UNCHANGED ui
SeqConsumer == MotorControlTask /\ UNCHANGED ui

LoopTask ==
  \/ StartSequence
  \/ LoopSequenceCheck
  \/ LoopSequenceNext
  \/ SafelyStopAndResetMotor
  \/ StopMotorSleep
  \/ LoopIdleCheck
  \/ LoopIdleSleep
  \/ LoopPoll

NextSeq ==
  \/ SeqTick
  \/ SeqConsumer
  \/ LoopTask

SpecSeq ==
  /\ InitSeq
  /\ [][NextSeq]_vars
  /\ WF_vars(SeqTick)
  /\ WF_vars(SeqConsumer)
  /\ WF_vars(LoopTask)

\* SpecRun: SpecSeq for the sequences that do not loop.
InitRun == InitSeq /\ ~ui.loopSequence

SpecRun ==
  /\ InitRun
  /\ [][NextSeq]_vars
  /\ WF_vars(SeqTick)
  /\ WF_vars(SeqConsumer)
  /\ WF_vars(LoopTask)

\* ------------------------------------------------------------------ C1
\* The position the single move of SpecMove is to reach.
Goal == IF queue # <<>> THEN Head(queue).position ELSE m.targetPosition

MoveDone ==
  /\ queue = <<>>
  /\ ~m.isRunning
  /\ m.currentPosition = Goal
  /\ drv.net = Goal

MoveSafe ==
  /\ m.currentPosition >= 0 /\ m.currentPosition <= Goal
  /\ drv.net >= 0 /\ drv.net <= Goal
  /\ (queue = <<>> /\ ~m.isRunning => MoveDone)

C2_DirectionConsistency ==
  (last.act = "tick" /\ ~m.isContinuous /\ (last.n > 0 \/ last.d # 0))
    => \/ last.d = 1 /\ m.currentPosition <= m.targetPosition
       \/ last.d = -1 /\ m.currentPosition >= m.targetPosition

C2_Witness ==
  /\ last.act = "tick"
  /\ ~m.isContinuous
  /\ last.d = -1
  /\ m.currentPosition > m.targetPosition

\* ------------------------------------------------------------------ C3
\* C3: after every completed tick and every completed command the step
\* accumulator holds a fraction of a step: 0 <= stepAccumulator < 1.
C3_AccumulatorRange ==
  last.act \in {"tick", "cmd"}
    => m.stepAccumulator >= 0 /\ m.stepAccumulator < One

\* ------------------------------------------------------------------ C4
\* C4: one tick calls the driver's step() at most once and changes
\* currentPosition by at most one step, whatever the accumulator holds.
C4_OneStepPerTick ==
  last.act = "tick" => last.n <= 1 /\ Abs(last.d) <= 1

C4_Witness ==
  /\ last.act = "tick"
  /\ last.n = 1
  /\ m.stepAccumulator >= One

\* ------------------------------------------------------------------ C5
QueueAccepts ==
  \E cmd \in QueueCommands : queue' = Append(queue, cmd)

QueueApplies ==
  /\ queue # <<>>
  /\ queue' = Tail(queue)
  /\ last'.act = "cmd"
  /\ last'.type = Head(queue).cmd_type
  /\ m' = HandleCommand(Head(queue), m, drv).m
  /\ drv' = HandleCommand(Head(queue), m, drv).drv

QueueCleared ==
  /\ last'.act = "clear"
  /\ last'.n = Len(queue)
  /\ queue' = <<>>

C6_BoundedQueue ==
  [][/\ Len(queue') <= QueueCapacity
     /\ last'.act = "send" =>
          IF Len(queue) < QueueCapacity
          THEN /\ last'.n = 1
               /\ Len(queue') = Len(queue) + 1
               /\ SubSeq(queue', 1, Len(queue)) = queue
               /\ queue'[Len(queue')].cmd_type = last'.type
          ELSE /\ last'.n = 0
               /\ queue' = queue
       /\ (last'.act = "send" => m' = m /\ drv' = drv)]_vars

C6_Witness ==
  /\ last.act = "send"
  /\ last.n = 0
  /\ Len(queue) = QueueCapacity

\* ------------------------------------------------------------------ C7
\* C7: once a STOP has been applied and no motion-start command has been
\* applied since, the engine is not running and no tick calls step() or
\* changes currentPosition.
C7_StopWins ==
  halted => /\ ~m.isRunning
            /\ (last.act = "tick" => last.n = 0 /\ last.d = 0)

C7_Witness ==
  /\ halted
  /\ last.act = "tick"
  /\ m.currentSpeed > 0
  /\ m.currentPosition # m.targetPosition

\* ------------------------------------------------------------------ C8
\* C8: when a STOP has just been applied the engine is idle, currentSpeed
\* is 0 and the driver is disabled.
C8_StopPostcondition ==
  (last.act = "cmd" /\ last.type = "CMD_STOP_MOTOR")
    => ~m.isRunning /\ m.currentSpeed = 0 /\ ~drv.enabled

\* ------------------------------------------------------------------ C9
StopOnce == HandleCommand(StopCmd, m, drv)

StopApplied == last'.act = "cmd" /\ last'.type = "CMD_STOP_MOTOR"

\* A further STOP applied to the state the STOP left changes nothing.
StopAgainSame ==
  HandleCommand(StopCmd, m', drv') = [m |-> m', drv |-> drv']

C10_NoHalfAppliedTick ==
  ~(last.act = "tick" /\ last.type = "half-applied")

\* ----------------------------------------------------------------- C11
\* C11: the engine's fields are written only by the tick and by the
\* consumer task applying a command; a call made in the caller's context
\* leaves them as they are.
C11_CallerOnlyEnqueues ==
  [][m' # m => last'.act \in {"tick", "cmd", "stmt"}]_vars

\* ----------------------------------------------------------------- C12
\* C12: a motion-start command applied to an idle engine leaves the tick
\* time base at the current time, so the first tick of the motion measures
\* its elapsed time from the command.
C12_ResyncOnModeEntry ==
  (last.act = "cmd" /\ last.type \in MotionStart /\ ~last.ran)
    => m.sinceAccel = 0

\* ----------------------------------------------------------------- C13
TargetSpeed == m.speed * UnitsPerSec

RampTick == last'.act = "tick" /\ m.isRunning /\ ~m.jogMode

\* C13: currentSpeed is never negative, and a tick that ramps up outside
\* jog mode never leaves currentSpeed above the target speed.
C13_SpeedClamped ==
  /\ [](m.currentSpeed >= 0)
  /\ [][RampTick /\ m.currentSpeed < TargetSpeed
          => m'.currentSpeed <= TargetSpeed]_vars

C13_Witness ==
  /\ last.act = "tick"
  /\ last.ran
  /\ m.isRunning
  /\ ~m.jogMode
  /\ m.acceleration = 3
  /\ m.speed = 1
  /\ m.currentSpeed = TargetSpeed

\* ----------------------------------------------------------------- C14
\* C14: outside jog mode a tick moves currentSpeed toward the target speed
\* and never past it: not above it when ramping up, not below it when
\* ramping down.
C14_NoOvershoot ==
  [][RampTick =>
       /\ m.currentSpeed <= TargetSpeed =>
            m.currentSpeed <= m'.currentSpeed /\ m'.currentSpeed <= TargetSpeed
       /\ m.currentSpeed >= TargetSpeed =>
            TargetSpeed <= m'.currentSpeed /\ m'.currentSpeed <= m.currentSpeed
    ]_vars

\* ----------------------------------------------------------------- C15
\* C15: the tick that takes the final step of a position move, the one
\* that makes currentPosition equal to targetPosition, leaves the engine
\* idle and the driver disabled.
C15_ArrivalSameTick ==
  (/\ last.act = "tick"
   /\ last.d # 0
   /\ ~m.isContinuous
   /\ m.currentPosition = m.targetPosition)
    => ~m.isRunning /\ ~drv.enabled

\* ----------------------------------------------------------------- C16
\* C16: a tick never stops a running jog.  In SpecQueue only START_JOG sets
\* the jog flag, and only a STOP or clearCommandQueue() clears it.
C16_JogRunsUntilStop ==
  [][m.isRunning /\ m.jogMode /\ last'.act = "tick" => m'.isRunning]_vars

C19_IdleTickFrame ==
  [][~m.isRunning /\ last'.act = "tick" =>
       /\ m' = [m EXCEPT !.sinceAccel = Min(@ + TickPeriod, MaxStale)]
       /\ drv' = drv
       /\ last'.n = 0
    ]_vars

C19_Witness ==
  /\ last.act = "tick"
  /\ ~last.ran
  /\ drv.enabled
  /\ m.currentPosition # m.targetPosition

\* ----------------------------------------------------------------- C20
MoveApplied ==
  /\ queue # <<>>
  /\ Head(queue).cmd_type \in {"CMD_MOVE_TO", "CMD_MOVE_STEPS"}
  /\ last'.act = "cmd"

\* C20: applying CMD_MOVE_TO or CMD_MOVE_STEPS sets targetPosition (the
\* position given, or currentPosition plus the steps given) and the target
\* speed from the command, leaves stepAccumulator and currentSpeed at 0,
\* the engine running a position move and the driver enabled.
C20_MovePostcondition ==
  [][MoveApplied =>
       /\ m'.targetPosition =
            (IF Head(queue).cmd_type = "CMD_MOVE_TO"
             THEN Head(queue).position
             ELSE m.currentPosition + Head(queue).position)
       /\ m'.speed = Head(queue).speed
       /\ m'.stepAccumulator = 0
       /\ m'.currentSpeed = 0
       /\ m'.isRunning /\ ~m'.isContinuous /\ ~m'.jogMode
       /\ drv'.enabled
    ]_vars

\* ----------------------------------------------------------------- C21
\* The consumer task applies, in this step, a command of kind t.
Applies(t) ==
  /\ queue # <<>>
  /\ Head(queue).cmd_type = t
  /\ last'.act = "cmd"

\* C21: applying CMD_MOVE_JOG leaves currentSpeed as it was.
C21_JogKeepsSpeed ==
  [][Applies("CMD_MOVE_JOG") => m'.currentSpeed = m.currentSpeed]_vars

C21_Witness ==
  /\ last.act = "cmd"
  /\ last.type = "CMD_MOVE_JOG"
  /\ last.ran
  /\ m.jogMode
  /\ m.currentSpeed > 0

\* ----------------------------------------------------------------- C22
\* C22: applying CMD_SET_SPEED changes the target speed to the command's
\* and no other field of the engine or of the driver.
C22_SetSpeedFrame ==
  [][Applies("CMD_SET_SPEED") =>
       /\ m' = [m EXCEPT !.speed = Head(queue).speed]
       /\ drv' = drv
    ]_vars

C22_Witness ==
  /\ last.act = "cmd"
  /\ last.type = "CMD_SET_SPEED"
  /\ last.ran
  /\ m.isRunning
  /\ m.currentSpeed > 0
  /\ m.currentSpeed # TargetSpeed
  /\ m.stepAccumulator > 0

\* ----------------------------------------------------------------- C23
\* C23: applying CMD_SET_ACCELERATION sets the acceleration to the value the
\* command carries and changes nothing else.
C23_SetAccelerationApplied ==
  [][Applies("CMD_SET_ACCELERATION") =>
       /\ m' = [m EXCEPT !.acceleration = Head(queue).acceleration]
       /\ drv' = drv
    ]_vars

C26_MoveEndsAtRest ==
  /\ m.currentSpeed >= 0
  /\ (last.act = "tick" /\ last.ran /\ ~m.isRunning /\ ~m.jogMode)
       => m.currentPosition = m.targetPosition /\ m.currentSpeed = 0

\* ----------------------------------------------------------------- C27
\* A tick of a running engine whose currentSpeed it leaves as it was.
ConstantSpeedTick ==
  /\ last'.act = "tick"
  /\ m.isRunning /\ m'.isRunning
  /\ m'.currentSpeed = m.currentSpeed

\* C27: while the speed is constant the accumulator carries the whole
\* difference between speed * time and the steps emitted: each tick adds
\* speed * TickPeriod, takes one step's worth out for the step it emits,
\* and leaves less than one step behind, so over any number of ticks the
\* steps emitted stay within one step of speed * time.
C27_AccumulatorConservation ==
  [][ConstantSpeedTick /\ m.stepAccumulator < One =>
       /\ m'.stepAccumulator =
            m.stepAccumulator + m.currentSpeed * TickPeriod - last'.n * One
       /\ m'.stepAccumulator >= 0
       /\ m'.stepAccumulator < One
    ]_vars

\* ----------------------------------------------------------------- C28
\* C28: a tick of an engine whose target speed is 0 and that ends with
\* currentSpeed 0 emits no step and leaves currentPosition as it was; an
\* engine parked at currentSpeed 0 with target speed 0 stays at 0.
C28_ZeroSpeedParks ==
  [][last'.act = "tick" /\ m.isRunning /\ m.speed = 0 =>
       /\ m.currentSpeed = 0 => m'.currentSpeed = 0
       /\ m'.currentSpeed = 0 =>
            last'.n = 0 /\ m'.currentPosition = m.currentPosition
    ]_vars

\* ----------------------------------------------------------------- C25
\* C25: every controller.sleep() and controller.wake() of the sketch is
\* called while the engine is not running.
C25_LifecycleWhileStopped ==
  last.act \in {"sleep", "wake"} => ~last.ran

\* ----------------------------------------------------------------- C29
\* The loop task sends the CMD_MOVE_STEPS of a sequence leg.
LegIssued ==
  /\ ui.pc \in {"sequence", "next"}
  /\ last'.act = "send"
  /\ last'.type = "CMD_MOVE_STEPS"

\* C29: a leg's CMD_MOVE_STEPS is sent only when the engine is idle and no
\* earlier command is still queued, and a leg sends one command at most.
C29_LegAfterIdle ==
  [][LegIssued =>
       /\ queue = <<>>
       /\ ~m.isRunning
       /\ Len(queue') = 1
       /\ ui'.currentStep = ui.currentStep + 1
    ]_vars

\* ----------------------------------------------------------------- C30
\* The loop task computes the movement of the next leg.
LegComputed ==
  /\ ui.pc = "next"
  /\ ui'.pc = "loop"
  /\ ui'.isRunning

\* C30: the angular movement of a leg is the forward distance from the
\* current to the target position in the leg's direction, modulo a
\* revolution: in 0 .. Rev - 1, (target - current) mod Rev clockwise and
\* (current - target) mod Rev counter-clockwise.
C30_AngularWraparound ==
  [][LegComputed =>
       LET target == ui.positions[ui'.currentStep + 1]
           current == ui.currentPosition
       IN  /\ ui'.angularMovement \in 0 .. (Rev - 1)
           /\ ui'.angularMovement =
                IF MoveClockwise(ui, ui'.currentStep)
                THEN (target - current) % Rev
                ELSE (current - target) % Rev
    ]_vars

\* A clockwise leg to 10 % computed 20 %: it started at 90 %.
C30_Witness ==
  /\ last.act = "send"
  /\ ui.pc = "loop"
  /\ ui.currentPosition = 10
  /\ ui.angularMovement = 20
  /\ MoveClockwise(ui, ui.currentStep)

\* ----------------------------------------------------------------- C31
\* The position a leg starts from: startSequence() takes positions[0].
LegFrom == IF ui.pc = "sequence" THEN ui.positions[1] ELSE ui.currentPosition

\* C31: a leg's CMD_MOVE_STEPS is clockwise (a count not above 0) on an odd
\* leg exactly if initialDirection is set and on an even leg exactly if it
\* is not, also on leg 1 after the loop back; its count is the leg's
\* steps with the sign of that direction.
C31_DirectionAlternates ==
  [][LegIssued =>
       LET leg == ui'.currentStep
           clockwise == (leg % 2 = 1) = ui.initialDirection
           cmd == queue'[Len(queue')]
           steps == RotationPercentToSteps(
                      TotalMovement(LegFrom, ui.positions[leg + 1], clockwise))
       IN  cmd.position = IF clockwise THEN -steps ELSE steps
    ]_vars

\* Leg 1 of the second round went counter-clockwise, as configured.
C31_Witness ==
  /\ last.act = "send"
  /\ last.type = "CMD_MOVE_STEPS"
  /\ ui.loopSequence
  /\ ui.currentStep = 1
  /\ ~ui.initialDirection
  /\ queue[Len(queue)].position > 0

\* ----------------------------------------------------------------- C32
\* The loop task calls moveToNextSequencePosition() after the last leg.
EndOfList ==
  /\ ui.pc = "next"
  /\ ui.currentStep = 4
  /\ ui'.pc # "next"

\* C32: at the end of the list a sequence without looping clears its
\* running flag and sends a STOP instead of a leg, no leg is sent once it
\* has ended, and when the loop task is back in loop() the engine is
\* stopped and the driver disabled; a looping sequence keeps its flag and
\* goes on with leg 1.
C32_EndOfList ==
  [][/\ EndOfList =>
          IF ui.loopSequence
          THEN ui'.isRunning /\ ui'.currentStep = 1 /\ LegIssued
          ELSE /\ ~ui'.isRunning /\ ui'.currentStep = 5
               /\ last'.act = "send" /\ last'.type = "CMD_STOP_MOTOR"
     /\ ui.currentStep = 5 => ~LegIssued /\ ~ui'.isRunning
     /\ (ui'.currentStep = 5 /\ ui'.pc = "loop") =>
          ~drv'.enabled /\ ~m'.isRunning /\ queue' = <<>>
    ]_vars

\* The sequence has ended and stopMotor() has put the driver to sleep.
C32_Witness ==
  /\ ui.currentStep = 5
  /\ ui.pc = "loop"
  /\ ~ui.isRunning
  /\ last.act = "sleep"
  /\ drv.asleep
  /\ m.currentPosition # 0

\* ----------------------------------------------------------------- C35
\* The movement of the leg the loop task is about to compute, in percent:
\* the forward distance modulo a revolution plus the target's whole turns.
LegTotal ==
  LET leg == IF ui.currentStep + 1 >= 5 THEN 1 ELSE ui.currentStep + 1
      target == ui.positions[leg + 1]
      clockwise == (leg % 2 = 1) = ui.initialDirection
  IN  (IF clockwise THEN (target - LegFrom) % Rev
       ELSE (LegFrom - target) % Rev)
        + Rev * (target \div Rev)

\* C35: a leg whose total movement is 0 sends nothing; every other leg
\* sends one CMD_MOVE_STEPS whose count has the magnitude
\* rotationPercentToSteps(total movement).
C35_LegMagnitude ==
  [][LegComputed =>
       IF LegTotal <= 0
       THEN queue' = queue /\ last'.act = "ui"
       ELSE /\ LegIssued
            /\ queue' = Append(queue, queue'[Len(queue')])
            /\ Abs(queue'[Len(queue')].position) =
                 (LegTotal * StepsPerRev) \div Rev
    ]_vars

\* A clockwise leg from 190 % to 210 %: 20 % and two whole turns.
C35_Witness ==
  /\ last.act = "send"
  /\ ui.pc = "loop"
  /\ ui.currentPosition = MaxPercent
  /\ ui.angularMovement = 20
  /\ MoveClockwise(ui, ui.currentStep)
  /\ queue[Len(queue)].position = -((220 * StepsPerRev) \div Rev)

\* ----------------------------------------------------------------- C39
\* C39: a running sequence without looping eventually clears its running
\* flag; every leg it sends advances currentStep by one, to 4 at most, so
\* that it sends no more than 4 commands; currentStep stays in 0 .. 5.
C39_SequenceTerminates ==
  /\ [](ui.currentStep \in 0 .. 5)
  /\ [][(LegIssued /\ ~ui.loopSequence) =>
          ui'.currentStep = ui.currentStep + 1 /\ ui'.currentStep <= 4]_vars
  /\ ((ui.isRunning /\ ~ui.loopSequence) ~> ~ui.isRunning)

\* The sequence has sent its fourth leg and the engine has run it.
C39_Witness ==
  /\ ~ui.loopSequence
  /\ ui.isRunning
  /\ ui.currentStep = 4
  /\ last.act = "tick"
  /\ last.ran
  /\ ~m.isRunning

\* ----------------------------------------------------------------- C33
\* C33: step() on a disabled driver leaves every field of the driver as it
\* was, for both variants; on an enabled driver it emits one increment in
\* the latched direction, the four-phase driver moving its phase by one in
\* that direction, and changes nothing else.
C33_StepWhenDisabledNoOp ==
  [][last'.act = "step" =>
       IF ~drv.enabled
       THEN drv' = drv
       ELSE LET inc == IF drv.direction THEN 1 ELSE -1 IN
            drv' = [drv EXCEPT
                      !.net = @ + inc,
                      !.stepCount = IF last'.type = "L298N"
                                    THEN (@ + inc) % 4 ELSE @]
    ]_vars

\* step() was called on a disabled four-phase driver at phase 2.
C33_Witness ==
  /\ last.act = "step"
  /\ last.type = "L298N"
  /\ ~last.ran
  /\ ~drv.enabled
  /\ drv.stepCount = 2

\* ----------------------------------------------------------------- C34
\* C34: currentPosition, 0 at construction and never set otherwise, equals
\* the net number of steps the driver emitted: the engine counts no step
\* for which the driver's step() did nothing.
C34_PositionTracksDriver ==
  m.currentPosition = drv.net

\* ----------------------------------------------------------------- C36
\* C36: every CMD_START_CONTINUOUS the sketch sends has the direction
\* clockwiseDirection with the continuous mode's inversion applied once
\* (the inversion is configured on), and every CMD_MOVE_STEPS of
\* startStepperMotion() has the sign and direction of clockwiseDirection
\* with the step mode's inversion (configured on) applied once.
C36_EffectiveDirection ==
  [][(last'.act = "send" /\ last'.n = 1) =>
       LET cmd == queue'[Len(queue')] IN
       /\ cmd.cmd_type = "CMD_START_CONTINUOUS" =>
            cmd.direction = ~ui'.clockwiseDirection
       /\ (cmd.cmd_type = "CMD_MOVE_STEPS" /\ ui.pc = "send") =>
            /\ cmd.direction = ~ui'.clockwiseDirection
            /\ (cmd.position > 0) = cmd.direction
    ]_vars

\* ----------------------------------------------------------------- C37
\* C37: no tick runs on an engine with both the continuous and the jog flag
\* set, and an engine that is not running after a completed tick or command
\* has neither flag set.
C37_ModeExclusive ==
  /\ (last.act = "tick" /\ last.ran) => ~(m.isContinuous /\ m.jogMode)
  /\ (last.act \in {"tick", "cmd"} /\ ~m.isRunning)
       => ~m.isContinuous /\ ~m.jogMode

\* ----------------------------------------------------------------- C38
\* The consumer task takes the oldest waiting command and applies it.
HeadApplied ==
  /\ queue' = Tail(queue)
  /\ last'.act = "cmd"
  /\ last'.type = Head(queue).cmd_type
  /\ m' = HandleCommand(Head(queue), m, drv).m
  /\ drv' = HandleCommand(Head(queue), m, drv).drv

C40_JogReplacesMove ==
  [][Applies("CMD_MOVE_JOG") =>
       /\ m'.targetPosition = m.currentPosition + Head(queue).position
       /\ m'.currentPosition = m.currentPosition
       /\ m'.isRunning /\ m'.jogMode /\ ~m'.isContinuous
       /\ drv'.enabled
    ]_vars

\* A jog step back was applied to an engine running at position 1.
C40_Witness ==
  /\ last.act = "cmd"
  /\ last.type = "CMD_MOVE_JOG"
  /\ last.ran
  /\ m.currentPosition = 1
  /\ m.targetPosition = 0

====
